---- MODULE Spec2Model ----
(***************************************************************************)
(* The colour-record service of aws-cdk-lambda-powertools: the three       *)
(* Lambda handlers (create-data for POST/PUT, delete-data, read-data) over *)
(* the DynamoDB table ToolsDemoTable with its CorrelationId index.         *)
(*                                                                         *)
(* A handler invocation is one atomic step: the handlers keep no state     *)
(* between invocations and make at most one call to the table.  What the   *)
(* code draws from Math.random() and what the table service answers (a     *)
(* service fault instead of a result) are inputs of the step.              *)
(*                                                                         *)
(* The state machine TestLogDemoFunctions drives the service: each of its  *)
(* tasks calls one method of the API and moves on by the outcome.          *)
(***************************************************************************)
EXTENDS Integers, FiniteSets, Sequences, TLC

\* ------------------------------------------------------------------ bounds

\* Number of handler invocations in a behaviour, with all inputs enumerated.
MaxCalls == 2

\* Number of handler invocations in a behaviour of the scenario
\* specification (plain requests: no failure injection, no service fault).
MaxScenarioCalls == 5

\* Number of handler invocations in a behaviour of the timed specification
\* (plain requests, with the clock running).
MaxTimedCalls == 3

\* The wall clock runs from 0 to MaxTime.
MaxTime == 1

\* The number of iterations of an execution of the state machine: total and
\* count.remaining in StartPass, where the stack sets 20.
total == 2

\* ------------------------------------------------------------------ values

\* A request field that is not supplied.
undefined == "undefined"

\* JavaScript truthiness of an optional string.
Truthy(s) == s \notin {undefined, ""}

\* const logExpiry = Number(process.env.LOG_EXPIRY_IN_DAYS) || 30
logExpiry == 30

\* $context.requestId of the n-th request: unique for each request.
RequestId(n) == "r" \o ToString(n)

\* The item ids a caller may name: the ids the service has assigned or will.
ItemIds(max) == {RequestId(i) : i \in 1..max}

\* The correlation tokens a caller may supply.
CallerCorrelationIds == {"c1"}

\* What the table service may answer instead of serving the request:
\* the table is missing, or any other service error.
Faults == {"ResourceNotFoundException", "InternalServerError"}

NoFault == "none"

\* type ItemAttributes
Item(itemId, updateTime, correlationId, colour, expiryTime) ==
    [ItemId        |-> itemId,
     UpdateTime    |-> updateTime,
     CorrelationId |-> correlationId,
     Colour        |-> colour,
     ExpiryTime    |-> expiryTime]

\* The empty table.
EmptyTable == [k \in {} |-> Item("", 0, "", "", 0)]

\* The items of a table.
Items(tbl) == {tbl[k] : k \in DOMAIN tbl}

\* ------------------------------------------------------------------ table

\* A put whose condition is checked for Create only: Update upserts.
PutCondFailsCreateOnly(tbl, item, cond) ==
    cond = "attribute_not_exists(ItemId)" /\ item.ItemId \in DOMAIN tbl

\* DocumentClient.put with a ConditionExpression on the partition key.
PutCondFails(tbl, item, cond) ==
    \/ cond = "attribute_not_exists(ItemId)" /\ item.ItemId \in DOMAIN tbl
    \/ cond = "attribute_exists(ItemId)" /\ item.ItemId \notin DOMAIN tbl

\* A put that leaves an item already stored as it is.
PutItemKeepStored(tbl, item) ==
    [k \in DOMAIN tbl \cup {item.ItemId} |->
        IF k \in DOMAIN tbl THEN tbl[k] ELSE item]

\* A put that keeps the CorrelationId of an item already stored.
PutItemKeepCorrelationId(tbl, item) ==
    [k \in DOMAIN tbl \cup {item.ItemId} |->
        IF k # item.ItemId THEN tbl[k]
        ELSE IF k \in DOMAIN tbl
        THEN [item EXCEPT !.CorrelationId = tbl[k].CorrelationId]
        ELSE item]

\* DocumentClient.put replaces the whole item stored under the key.
PutItem(tbl, item) ==
    [k \in DOMAIN tbl \cup {item.ItemId} |-> IF k = item.ItemId THEN item ELSE tbl[k]]

\* A put that writes the item and then reports the failed condition.
StorePutThenCheck(tbl, item, cond, fault) ==
    IF fault # NoFault
    THEN [err |-> fault, table |-> tbl]
    ELSE IF PutCondFails(tbl, item, cond)
         THEN [err |-> "ConditionalCheckFailedException", table |-> PutItem(tbl, item)]
         ELSE [err |-> NoFault, table |-> PutItem(tbl, item)]

StorePut(tbl, item, cond, fault) ==
    IF fault # NoFault
    THEN [err |-> fault, table |-> tbl]
    ELSE IF PutCondFails(tbl, item, cond)
         THEN [err |-> "ConditionalCheckFailedException", table |-> tbl]
         ELSE [err |-> NoFault, table |-> PutItem(tbl, item)]

\* A delete that removes nothing.
DeleteItemKeepsAll(tbl, key) == tbl

\* DocumentClient.delete with a Key and no ConditionExpression: the service
\* removes the item if there is one and answers without error either way.
DeleteItem(tbl, key) == [k \in DOMAIN tbl \ {key} |-> tbl[k]]

\* A delete whose fault is swallowed: nothing is removed, no error reported.
StoreDeleteSwallowsFault(tbl, key, fault) ==
    IF fault # NoFault
    THEN [err |-> NoFault, table |-> tbl]
    ELSE [err |-> NoFault, table |-> DeleteItem(tbl, key)]

StoreDelete(tbl, key, fault) ==
    IF fault # NoFault
    THEN [err |-> fault, table |-> tbl]
    ELSE [err |-> NoFault, table |-> DeleteItem(tbl, key)]

\* DocumentClient.scan of the whole table.
StoreScan(tbl, fault) ==
    IF fault # NoFault
    THEN [err |-> fault, Items |-> {}]
    ELSE [err |-> NoFault, Items |-> Items(tbl)]

\* A query that ignores the key condition.
QueryItemsAll(tbl, correlationId) == Items(tbl)

\* DocumentClient.query on the index CorrelationId.
QueryItems(tbl, correlationId) ==
    {i \in Items(tbl) : i.CorrelationId = correlationId}

StoreQuery(tbl, correlationId, fault) ==
    IF fault # NoFault
    THEN [err |-> fault, Items |-> {}]
    ELSE [err |-> NoFault, Items |-> QueryItems(tbl, correlationId)]

\* ------------------------------------------------------------------ handlers

\* process.env.TABLE_NAME, set by the application stack for every function.
tableName == "ToolsDemoTable"

NoItem == Item("", 0, "", "", 0)

NoResponse == [success |-> FALSE]

NoPayload == [statusCode |-> 0, message |-> "", requestId |-> ""]

\* A catch block with the two severities inverted.
ThrownInverted(statusCode, errMessage, errorMessage, requestId, colourMetric, tbl, called, draws) ==
    [success      |-> FALSE,
     statusCode   |-> statusCode,
     message      |-> errMessage,
     warn         |-> IF statusCode = 400 THEN 0 ELSE 1,
     error        |-> IF statusCode = 400 THEN 1 ELSE 0,
     logMessage   |-> IF statusCode = 400 THEN errMessage ELSE errorMessage,
     WARNING      |-> IF statusCode = 400 THEN 0 ELSE 1,
     ERROR        |-> IF statusCode = 400 THEN 1 ELSE 0,
     colourMetric |-> colourMetric,
     payload      |-> [statusCode |-> statusCode, message |-> errMessage,
                       requestId |-> requestId],
     response     |-> NoResponse,
     item         |-> NoItem,
     table        |-> tbl,
     storeCalled  |-> called,
     draws        |-> draws]

\* The catch block of a handler: the thrown error is classified by the
\* statusCode the handler had set when it threw, logged, counted and
\* re-thrown with its message replaced by the packed payload.
Thrown(statusCode, errMessage, errorMessage, requestId, colourMetric, tbl, called, draws) ==
    [success      |-> FALSE,
     statusCode   |-> statusCode,
     message      |-> errMessage,
     warn         |-> IF statusCode = 400 THEN 1 ELSE 0,
     error        |-> IF statusCode = 400 THEN 0 ELSE 1,
     logMessage   |-> IF statusCode = 400 THEN errorMessage ELSE errMessage,
     WARNING      |-> IF statusCode = 400 THEN 1 ELSE 0,
     ERROR        |-> IF statusCode = 400 THEN 0 ELSE 1,
     colourMetric |-> colourMetric,
     payload      |-> [statusCode |-> statusCode, message |-> errMessage,
                       requestId |-> requestId],
     response     |-> NoResponse,
     item         |-> NoItem,
     table        |-> tbl,
     storeCalled  |-> called,
     draws        |-> draws]

\* A handler that returns: API Gateway answers 200 with the returned body.
Returned(response, colourMetric, item, tbl, draws) ==
    [success      |-> TRUE,
     statusCode   |-> 200,
     message      |-> "",
     warn         |-> 0,
     error        |-> 0,
     logMessage   |-> "",
     WARNING      |-> 0,
     ERROR        |-> 0,
     colourMetric |-> colourMetric,
     payload      |-> NoPayload,
     response     |-> response,
     item         |-> item,
     table        |-> tbl,
     storeCalled  |-> TRUE,
     draws        |-> draws]

\* Colour without the check for both flags.
ColourNoPurple(isRed, isBlue) ==
    IF ~isRed /\ ~isBlue THEN "BLACK"
    ELSE IF isRed THEN "RED" ELSE "BLUE"

\* The colour of a request from its two colour flags.
Colour(isRed, isBlue) ==
    IF ~isRed /\ ~isBlue THEN "BLACK"
    ELSE IF isRed /\ isBlue THEN "PURPLE"
    ELSE IF isRed THEN "RED" ELSE "BLUE"

\* The message the colour check sets for an invalid combination.
ColourMessage(isRed, isBlue) ==
    IF isRed /\ isBlue THEN "Invalid colour choices"
    ELSE IF ~isRed /\ ~isBlue THEN "Missing colour choice"
    ELSE "Internal Handler Error"

\* A failure-injection decision that reads the random draw only.
ThrowErrorDrawOnly(params, rnd) == params.surpriseMe /\ rnd.throw

\* The failure-injection decision: random under surpriseMe, else the flag.
ThrowError(params, rnd) ==
    IF params.surpriseMe THEN rnd.throw ELSE params.throwError

\* The colour flags the handler classifies: random under surpriseMe.
IsRed(params, rnd) == IF params.surpriseMe THEN rnd.red ELSE params.isRed

IsBlue(params, rnd) == IF params.surpriseMe THEN rnd.blue ELSE params.isBlue

\* The itemId check without its Create branch.
ItemIdErrorUpdateOnly(createRecord, itemId) ==
    IF ~createRecord /\ ~Truthy(itemId)
    THEN "itemId is required for an update"
    ELSE ""

\* The itemId check without its Update branch.
ItemIdErrorCreateOnly(createRecord, itemId) ==
    IF createRecord /\ Truthy(itemId)
    THEN "Do not specify itemId when creating a new item"
    ELSE ""

\* The itemId check of create-data: the message it throws with, or "".
ItemIdError(createRecord, itemId) ==
    IF ~createRecord /\ ~Truthy(itemId)
    THEN "itemId is required for an update"
    ELSE IF createRecord /\ Truthy(itemId)
    THEN "Do not specify itemId when creating a new item"
    ELSE ""

\* A check that lets PURPLE through.
InvalidColourBlackOnly(colour) == colour = "BLACK"

\* if (colour === 'BLACK' || colour === 'PURPLE') throw.
InvalidColour(colour) == colour \in {"BLACK", "PURPLE"}

\* A put with the condition of a Create, whatever the method.
ConditionExpressionOfCreate(createRecord) == "attribute_not_exists(ItemId)"

\* ConditionExpression of the put: the item must not exist for a Create and
\* must exist for an Update.
ConditionExpression(createRecord) ==
    IF createRecord THEN "attribute_not_exists(ItemId)" ELSE "attribute_exists(ItemId)"

\* A default that always takes the request id.
CorrelationIdOfRequest(params, requestId) == requestId

\* const { correlationId = requestId } = params: the default applies to a
\* field that is not supplied.
CorrelationIdOf(params, requestId) ==
    IF params.correlationId = undefined THEN requestId ELSE params.correlationId

\* An error branch of the put that loses the colour count.
PutErrorNoColour(err, createRecord, itemId, requestId, colour, tbl, draws) ==
    IF ~createRecord /\ err \in {"ResourceNotFoundException", "ConditionalCheckFailedException"}
    THEN Thrown(400, itemId \o " does not exist", "Internal Handler Error",
                requestId, "none", tbl, TRUE, draws)
    ELSE IF err = "ConditionalCheckFailedException"
    THEN Thrown(400, itemId \o " already exists", "Internal Handler Error",
                requestId, "none", tbl, TRUE, draws)
    ELSE Thrown(500, err, "Internal Handler Error", requestId, "none", tbl, TRUE, draws)

\* The error branch of the put in create-data.
PutError(err, createRecord, itemId, requestId, colour, tbl, draws) ==
    IF ~createRecord /\ err \in {"ResourceNotFoundException", "ConditionalCheckFailedException"}
    THEN Thrown(400, itemId \o " does not exist", "Internal Handler Error",
                requestId, colour, tbl, TRUE, draws)
    ELSE IF err = "ConditionalCheckFailedException"
    THEN Thrown(400, itemId \o " already exists", "Internal Handler Error",
                requestId, colour, tbl, TRUE, draws)
    ELSE Thrown(500, err, "Internal Handler Error", requestId, colour, tbl, TRUE, draws)

\* lambdaHandler of create-data: Create (POST) and Update (PUT).
\* rnd holds the values of the Math.random() draws, fault the answer of the
\* table service, now the wall clock, tbl the table.
CreateData(event, rnd, fault, now, tbl) ==
    LET params        == event.params
        requestId     == event.context.requestId
        httpMethod    == event.context.httpMethod
        correlationId == CorrelationIdOf(params, requestId)
        d0            == IF params.surpriseMe THEN 1 ELSE 0
        d1            == IF params.surpriseMe THEN 3 ELSE 0
        createRecord  == httpMethod = "POST"
        itemId        == IF Truthy(params.itemId) THEN params.itemId ELSE requestId
        isRed         == IsRed(params, rnd)
        isBlue        == IsBlue(params, rnd)
        colour        == Colour(isRed, isBlue)
        item          == Item(itemId, now, correlationId, colour, now + logExpiry)
        put           == StorePut(tbl, item, ConditionExpression(createRecord), fault)
    IN  IF ~Truthy(tableName)
        THEN Thrown(500, "Missing required env variables", "Internal Handler Error",
                    requestId, "none", tbl, FALSE, 0)
        ELSE IF ThrowError(params, rnd)
        THEN Thrown(500, "You asked me to throw an error", "Internal Handler Error",
                    requestId, "none", tbl, FALSE, d0)
        ELSE IF httpMethod # "POST" /\ httpMethod # "PUT"
        THEN Thrown(500, "Invalid method", "Internal Handler Error",
                    requestId, "none", tbl, FALSE, d0)
        ELSE IF ItemIdError(createRecord, params.itemId) # ""
        THEN Thrown(400, ItemIdError(createRecord, params.itemId),
                    "Internal Handler Error", requestId, "none", tbl, FALSE, d0)
        ELSE IF InvalidColour(colour)
        THEN Thrown(400, ColourMessage(isRed, isBlue), ColourMessage(isRed, isBlue),
                    requestId, colour, tbl, FALSE, d1)
        ELSE IF put.err # NoFault
        THEN PutError(put.err, createRecord, itemId, requestId, colour, put.table, d1)
        ELSE Returned([success |-> TRUE, colour |-> colour, requestId |-> requestId,
                       itemId |-> itemId, correlationId |-> correlationId],
                      colour, item, put.table, d1)

\* The error branch of the delete in delete-data.
DeleteError(err, itemId, requestId, tbl) ==
    IF err = "ResourceNotFoundException"
    THEN Thrown(400, itemId \o " does not exist", "Internal Handler Error",
                requestId, "none", tbl, TRUE, 0)
    ELSE Thrown(500, err, "Internal Handler Error", requestId, "none", tbl, TRUE, 0)

\* lambdaHandler of delete-data: Delete.
DeleteData(event, fault, tbl) ==
    LET params        == event.params
        requestId     == event.context.requestId
        httpMethod    == event.context.httpMethod
        itemId        == params.itemId
        correlationId == CorrelationIdOf(params, requestId)
        del           == StoreDelete(tbl, itemId, fault)
    IN  IF ~Truthy(tableName)
        THEN Thrown(500, "Missing required env variables", "Internal Handler Error",
                    requestId, "none", tbl, FALSE, 0)
        ELSE IF params.throwError
        THEN Thrown(500, "You asked me to throw an error", "Internal Handler Error",
                    requestId, "none", tbl, FALSE, 0)
        ELSE IF httpMethod # "DELETE"
        THEN Thrown(500, "Invalid method", "Internal Handler Error",
                    requestId, "none", tbl, FALSE, 0)
        ELSE IF ~Truthy(itemId)
        THEN Thrown(400, "itemId is required", "Internal Handler Error",
                    requestId, "none", tbl, FALSE, 0)
        ELSE IF del.err # NoFault
        THEN DeleteError(del.err, itemId, requestId, del.table)
        ELSE Returned([success |-> TRUE, requestId |-> requestId,
                       correlationId |-> correlationId],
                      "none", NoItem, del.table, 0)

\* The items read-data fetches first: the whole table, or one correlationId.
FetchItems(tbl, correlationId, fault) ==
    IF ~Truthy(correlationId)
    THEN StoreScan(tbl, fault)
    ELSE StoreQuery(tbl, correlationId, fault)

\* A read that returns all it fetched, whatever the itemId.
FilterItemsNone(allItems, itemId) == allItems

\* The items read-data returns: all fetched, or those of the given itemId.
FilterItems(allItems, itemId) ==
    IF Truthy(itemId) THEN {i \in allItems : i.ItemId = itemId} ELSE allItems

\* A check made on the items left by the filter.
NoItemsFoundAfterFilter(allItems, items) == items = {}

\* if (!allItems?.length): the check is on the items fetched, before the
\* filter by itemId.
NoItemsFound(allItems, items) == allItems = {}

\* lambdaHandler of read-data: Read.
ReadData(event, fault, tbl) ==
    LET params        == event.params
        requestId     == event.context.requestId
        itemId        == params.itemId
        correlationId == params.correlationId
        fetch         == FetchItems(tbl, correlationId, fault)
        allItems      == fetch.Items
        items         == FilterItems(allItems, itemId)
    IN  IF ~Truthy(tableName)
        THEN Thrown(500, "Missing required env variables", "Internal Handler Error",
                    requestId, "none", tbl, FALSE, 0)
        ELSE IF params.throwError
        THEN Thrown(500, "You asked me to throw an error", "Internal Handler Error",
                    requestId, "none", tbl, FALSE, 0)
        ELSE IF fetch.err # NoFault
        THEN Thrown(500, fetch.err, "Internal Handler Error",
                    requestId, "none", tbl, TRUE, 0)
        ELSE IF NoItemsFound(allItems, items)
        THEN Thrown(400, "No items found", "Internal Handler Error",
                    requestId, "none", tbl, TRUE, 0)
        ELSE Returned([success |-> TRUE, requestId |-> requestId,
                       correlationId |-> IF Truthy(correlationId) THEN correlationId ELSE "",
                       count |-> Cardinality(items), items |-> items],
                      "none", NoItem, tbl, 0)

\* ------------------------------------------------------------------ requests

Optional(S) == {undefined} \cup S

\* params of a create-data event.
WriteParams(max) ==
    [itemId        : Optional(ItemIds(max)),
     isRed         : BOOLEAN,
     isBlue        : BOOLEAN,
     surpriseMe    : BOOLEAN,
     correlationId : Optional(CallerCorrelationIds),
     throwError    : BOOLEAN]

\* params of a delete-data event.
DeleteParams(max) ==
    [itemId        : Optional(ItemIds(max)),
     correlationId : Optional(CallerCorrelationIds),
     throwError    : BOOLEAN]

\* params of a read-data event: the request template of the GET method
\* renders a missing query parameter as the empty string.
ReadParams(max) ==
    [itemId        : {""} \cup ItemIds(max),
     correlationId : {""} \cup CallerCorrelationIds \cup ItemIds(max),
     throwError    : BOOLEAN]

\* Requests without failure injection.
Plain(P) == {p \in P : ~p.throwError}

\* Write requests without failure injection, without random choices and
\* without a correlationId of the caller's.
PlainWrite(P) == {p \in Plain(P) : ~p.surpriseMe /\ p.correlationId = undefined}

\* The values of the three Math.random() draws of create-data
\* (throw: < 0.1, red: < 0.5, blue: < 0.5).
Draws == [throw : BOOLEAN, red : BOOLEAN, blue : BOOLEAN]

NoDraw == [throw |-> FALSE, red |-> FALSE, blue |-> FALSE]

Event(requestId, httpMethod, params) ==
    [context |-> [requestId |-> requestId, httpMethod |-> httpMethod],
     params  |-> params]

\* ------------------------------------------------------------------ state

VARIABLES
    table,      \* the DynamoDB table: ItemId -> item
    now,        \* the wall clock
    calls,      \* the number of requests API Gateway has received
    last,       \* the last invocation: request, table before it, outcome
    created,    \* history: ItemId -> the item its Create built
    updated,    \* history: ItemId -> the item its last successful Update built
    deleted,    \* history: the ids of the items a successful Delete removed
    scenario,   \* history: ItemId -> how far the end-to-end scenario got
    run,        \* the execution of the state machine TestLogDemoFunctions
    log,        \* history: the states the execution has completed, in order
    invocations \* request id -> an invocation running at the same time as others

vars == <<table, now, calls, last, created, updated, deleted, scenario, run, log,
          invocations>>

NoCall ==
    [op |-> "none", params |-> [throwError |-> FALSE], rnd |-> NoDraw,
     fault |-> NoFault, requestId |-> "", before |-> EmptyTable,
     out |-> Returned(NoResponse, "none", NoItem, EmptyTable, 0)]

\* No invocation has been started.
NoInvocations == [k \in {} |-> [op |-> "none"]]

\* No execution of the state machine has been started.
NoExecution ==
    [state |-> "NotStarted", name |-> "", input |-> [input |-> "none"],
     data |-> [input |-> "none"]]

Init ==
    /\ table = EmptyTable
    /\ now = 0
    /\ calls = 0
    /\ last = NoCall
    /\ created = EmptyTable
    /\ updated = EmptyTable
    /\ deleted = {}
    /\ scenario = [k \in {} |-> ""]
    /\ run = NoExecution
    /\ log = <<>>
    /\ invocations = NoInvocations

\* The draws and the service answer are inputs only where the handler
\* consumes them: a draw it never makes, or an answer to a call it never
\* issues, does not exist.
DrawsOf(params) ==
    IF params.surpriseMe
    THEN {d \in Draws : d.throw => ~d.red /\ ~d.blue}
    ELSE {NoDraw}

Consumed(r, rnd) ==
    /\ r.draws < 1 => ~rnd.throw
    /\ r.draws < 3 => ~rnd.red /\ ~rnd.blue

Answers(r, F) == IF r.storeCalled THEN {NoFault} \cup F ELSE {NoFault}

Record(op, params, rnd, fault, requestId, r) ==
    [op |-> op, params |-> params, rnd |-> rnd, fault |-> fault,
     requestId |-> requestId, before |-> table, out |-> r]

\* How far an item is through the end-to-end scenario, by the requests
\* made for it: "created" by a Create with the red flag alone that
\* succeeded, then "updated" by an Update with no colour flag, then
\* "deleted" by a Delete; "off" once any other write or delete names it.
ScenarioAfterWrite(op, params, rnd, r, id) ==
    IF op = "Create"
    THEN IF ~r.success THEN scenario
         ELSE IF IsRed(params, rnd) /\ ~IsBlue(params, rnd)
         THEN (id :> "created") @@ scenario
         ELSE (id :> "off") @@ scenario
    ELSE IF id \in DOMAIN scenario
    THEN IF /\ scenario[id] = "created"
            /\ ~ThrowError(params, rnd)
            /\ ~IsRed(params, rnd) /\ ~IsBlue(params, rnd)
         THEN (id :> "updated") @@ scenario
         ELSE (id :> "off") @@ scenario
    ELSE scenario

ScenarioAfterDelete(params, id) ==
    IF id \in DOMAIN scenario
    THEN IF scenario[id] = "updated" /\ ~params.throwError
         THEN (id :> "deleted") @@ scenario
         ELSE (id :> "off") @@ scenario
    ELSE scenario

\* ------------------------------------------------------------------ actions

\* POST /: one invocation of create-data.
Create(P, F, max) ==
    /\ calls < max
    /\ last.op = "none"
    /\ \E params \in P :
         \E rnd \in DrawsOf(params) :
           LET requestId == RequestId(calls + 1)
               event == Event(requestId, "POST", params)
           IN  \E fault \in Answers(CreateData(event, rnd, NoFault, now, table), F) :
                 LET r == CreateData(event, rnd, fault, now, table)
                 IN  /\ Consumed(r, rnd)
                     /\ table' = r.table
                     /\ calls' = calls + 1
                     /\ last' = Record("Create", params, rnd, fault, requestId, r)
                     /\ created' = IF r.success
                                   THEN (r.item.ItemId :> r.item) @@ created
                                   ELSE created
                     /\ scenario' = ScenarioAfterWrite("Create", params, rnd, r, requestId)
                     /\ UNCHANGED <<now, updated, deleted, run, log, invocations>>

\* PUT /: one invocation of create-data.
Update(P, F, max) ==
    /\ calls < max
    /\ last.op = "none"
    /\ \E params \in P :
         \E rnd \in DrawsOf(params) :
           LET requestId == RequestId(calls + 1)
               event == Event(requestId, "PUT", params)
           IN  \E fault \in Answers(CreateData(event, rnd, NoFault, now, table), F) :
                 LET r == CreateData(event, rnd, fault, now, table)
                 IN  /\ Consumed(r, rnd)
                     /\ table' = r.table
                     /\ calls' = calls + 1
                     /\ last' = Record("Update", params, rnd, fault, requestId, r)
                     /\ updated' = IF r.success
                                   THEN (r.item.ItemId :> r.item) @@ updated
                                   ELSE updated
                     /\ scenario' = ScenarioAfterWrite("Update", params, rnd, r,
                                                       params.itemId)
                     /\ UNCHANGED <<now, created, deleted, run, log, invocations>>

\* DELETE /: one invocation of delete-data.
Delete(P, F, max) ==
    /\ calls < max
    /\ last.op = "none"
    /\ \E params \in P :
         LET requestId == RequestId(calls + 1)
             event == Event(requestId, "DELETE", params)
         IN  \E fault \in Answers(DeleteData(event, NoFault, table), F) :
               LET r == DeleteData(event, fault, table)
               IN  /\ table' = r.table
                   /\ calls' = calls + 1
                   /\ last' = Record("Delete", params, NoDraw, fault, requestId, r)
                   /\ deleted' = IF r.success /\ params.itemId \in DOMAIN table
                                 THEN deleted \cup {params.itemId} ELSE deleted
                   /\ scenario' = ScenarioAfterDelete(params, params.itemId)
                   /\ UNCHANGED <<now, created, updated, run, log, invocations>>

\* GET /: one invocation of read-data.
Read(P, F, max) ==
    /\ calls < max
    /\ last.op = "none"
    /\ \E params \in P :
         LET requestId == RequestId(calls + 1)
             event == Event(requestId, "GET", params)
         IN  \E fault \in Answers(ReadData(event, NoFault, table), F) :
               LET r == ReadData(event, fault, table)
               IN  /\ table' = r.table
                   /\ calls' = calls + 1
                   /\ last' = Record("Read", params, NoDraw, fault, requestId, r)
                   /\ UNCHANGED <<now, created, updated, deleted, scenario, run, log, invocations>>

\* API Gateway hands the outcome of the invocation to the caller, who may
\* then send the next request.
Respond ==
    /\ last.op # "none"
    /\ last' = NoCall
    /\ UNCHANGED <<table, now, calls, created, updated, deleted, scenario, run, log, invocations>>

\* Time passes between two invocations.
Tick ==
    /\ now < MaxTime
    /\ last.op = "none"
    /\ now' = now + 1
    /\ UNCHANGED <<table, calls, last, created, updated, deleted, scenario, run, log, invocations>>

\* Any request, any random draw, any answer of the table service.
Next ==
    \/ Create(WriteParams(MaxCalls), Faults, MaxCalls)
    \/ Update(WriteParams(MaxCalls), Faults, MaxCalls)
    \/ Delete(DeleteParams(MaxCalls), Faults, MaxCalls)
    \/ Read(ReadParams(MaxCalls), Faults, MaxCalls)
    \/ Respond
    \/ Tick

Spec == Init /\ [][Next]_vars

\* Plain requests served by a working table, in longer runs.
NextScenario ==
    \/ Create(PlainWrite(WriteParams(MaxScenarioCalls)), {}, MaxScenarioCalls)
    \/ Update(PlainWrite(WriteParams(MaxScenarioCalls)), {}, MaxScenarioCalls)
    \/ Delete(Plain(DeleteParams(MaxScenarioCalls)), {}, MaxScenarioCalls)
    \/ Read(Plain(ReadParams(MaxScenarioCalls)), {}, MaxScenarioCalls)
    \/ Respond

SpecScenario == Init /\ [][NextScenario]_vars

\* Plain requests served by a working table, while time passes.
NextTimed ==
    \/ Create(PlainWrite(WriteParams(MaxTimedCalls)), {}, MaxTimedCalls)
    \/ Update(PlainWrite(WriteParams(MaxTimedCalls)), {}, MaxTimedCalls)
    \/ Delete(Plain(DeleteParams(MaxTimedCalls)), {}, MaxTimedCalls)
    \/ Read(Plain(ReadParams(MaxTimedCalls)), {}, MaxTimedCalls)
    \/ Respond
    \/ Tick

SpecTimed == Init /\ [][NextTimed]_vars

\* ------------------------------------------------------------ concurrency

\* The number of requests made at the same time.
MaxConcurrentCalls == 3

\* The Creates made at the same time: plain, with one colour.
ConcurrentCreates ==
    {p \in PlainWrite(WriteParams(1)) : p.itemId = undefined /\ p.isRed # p.isBlue}

\* The Updates made at the same time: plain, with one colour, all for the
\* item of the first request.
ConcurrentUpdates ==
    {p \in PlainWrite(WriteParams(1)) : p.itemId # undefined /\ p.isRed # p.isBlue}

\* The Deletes made at the same time: plain, for the same item.
ConcurrentDeletes ==
    {p \in Plain(DeleteParams(1)) : p.itemId # undefined /\ p.correlationId = undefined}

\* The invocations that have not made their call to the table yet.
Running == {k \in DOMAIN invocations : invocations[k].ended = 0}

\* The invocations that have returned.
Done == DOMAIN invocations \ Running

\* The position of the next event among the starts and returns so far.
Stamp == calls + Cardinality(Done) + 1

\* Lambda starts an invocation of a handler while others are running: the
\* handler reads its event and the clock.  What it does up to its one call
\* to the table does not depend on the table.
Begin(op, P) ==
    /\ calls < MaxConcurrentCalls
    /\ \E params \in P :
         invocations' =
             (RequestId(calls + 1) :>
                 [op |-> op, params |-> params, time |-> now,
                  stored |-> Truthy(params.itemId) /\ params.itemId \in DOMAIN table,
                  issued |-> Stamp, ended |-> 0, call |-> NoCall]) @@ invocations
    /\ calls' = calls + 1
    /\ UNCHANGED <<table, now, last, created, updated, deleted, scenario, run, log>>

\* An invocation of create-data makes its put, which the table applies or
\* refuses in one step, and returns.
CompleteWrite(F) ==
    \E k \in Running :
        LET inv == invocations[k]
            event == Event(k, IF inv.op = "Create" THEN "POST" ELSE "PUT", inv.params)
        IN  /\ inv.op \in {"Create", "Update"}
            /\ \E fault \in Answers(CreateData(event, NoDraw, NoFault, inv.time, table), F) :
                 LET r == CreateData(event, NoDraw, fault, inv.time, table)
                     call == Record(inv.op, inv.params, NoDraw, fault, k, r)
                 IN  /\ table' = r.table
                     /\ last' = call
                     /\ invocations' = [invocations EXCEPT ![k].ended = Stamp,
                                                           ![k].call = call]
                     /\ created' = IF inv.op = "Create" /\ r.success
                                   THEN (r.item.ItemId :> r.item) @@ created
                                   ELSE created
                     /\ updated' = IF inv.op = "Update" /\ r.success
                                   THEN (r.item.ItemId :> r.item) @@ updated
                                   ELSE updated
                     /\ UNCHANGED <<now, calls, deleted, scenario, run, log>>

\* An invocation of delete-data makes its delete and returns.
CompleteDelete(F) ==
    \E k \in Running :
        LET inv == invocations[k]
            event == Event(k, "DELETE", inv.params)
        IN  /\ inv.op = "Delete"
            /\ \E fault \in Answers(DeleteData(event, NoFault, table), F) :
                 LET r == DeleteData(event, fault, table)
                     call == Record("Delete", inv.params, NoDraw, fault, k, r)
                 IN  /\ table' = r.table
                     /\ last' = call
                     /\ invocations' = [invocations EXCEPT ![k].ended = Stamp,
                                                           ![k].call = call]
                     /\ deleted' = IF r.success /\ inv.params.itemId \in DOMAIN table
                                   THEN deleted \cup {inv.params.itemId} ELSE deleted
                     /\ UNCHANGED <<now, calls, created, updated, scenario, run, log>>

\* Creates, Updates and Deletes running at the same time, in every order of
\* their starts and of their calls to the table, which a working table
\* serves.
NextConcurrent ==
    \/ Begin("Create", ConcurrentCreates)
    \/ Begin("Update", ConcurrentUpdates)
    \/ Begin("Delete", ConcurrentDeletes)
    \/ CompleteWrite({})
    \/ CompleteDelete({})

SpecConcurrent == Init /\ [][NextConcurrent]_vars

\* The outcome of the last invocation.
Out == last.out

\* ------------------------------------------------------------------ workflow
\* The state machine TestLogDemoFunctions.  A task state calls the API: the
\* handler runs as one step (the action of its method above), and the task
\* completes in a second step, in which the state machine reads the outcome
\* (last), applies resultSelector and resultPath or its Catch, and moves to
\* the next state.

\* The names executions are started with.
ExecutionNames == {"e1"}

\* The inputs executions are started with: an iteration count, or the whole
\* state of another run.  The context object of the execution keeps the
\* name and the input.
ExecutionInputs ==
    {[input |-> "iterations", total |-> 1],
     [input |-> "state", total |-> 1, count |-> [remaining |-> 1],
      result |-> [itemId |-> "r1"], correlationId |-> "c1"]}

\* A run makes at most three calls per iteration, and one at the end.
MaxWorkflowCalls == 3 * total + 1

TaskStates == {"CreateItem", "UpdateItem", "DeleteItem", "GetItems"}

\* The states between StartPass and GetItems: the data holds the counter.
LoopStates == {"CreateItem", "UpdateItem", "DeleteItem", "ReduceCount", "CountChoice"}

TerminalStates == {"Success", "Failed"}

\* A StartPass that takes the iteration count from the input.
StartPassParametersOfInput(name, input) ==
    [total         |-> input.total,
     count         |-> [remaining |-> input.total],
     result        |-> [itemId |-> ""],
     correlationId |-> name]

\* parameters of StartPass, with resultPath '$': the data of the run is
\* replaced by them.
StartPassParameters(name, input) ==
    [total         |-> total,
     count         |-> [remaining |-> total],
     result        |-> [itemId |-> ""],
     correlationId |-> name]

\* A requestBody of CreateItem without the correlationId.
CreateItemParamsNoCorrelation(data) ==
    [itemId        |-> undefined,
     isRed         |-> FALSE,
     isBlue        |-> FALSE,
     surpriseMe    |-> TRUE,
     correlationId |-> undefined,
     throwError    |-> FALSE]

\* requestBody of CreateItem, as params of create-data: the fields the body
\* does not carry are not supplied.
CreateItemParams(data) ==
    [itemId        |-> undefined,
     isRed         |-> FALSE,
     isBlue        |-> FALSE,
     surpriseMe    |-> TRUE,
     correlationId |-> data.correlationId,
     throwError    |-> FALSE]

\* A requestBody of UpdateItem without the itemId.
UpdateItemParamsNoId(data) ==
    [itemId        |-> undefined,
     isRed         |-> FALSE,
     isBlue        |-> FALSE,
     surpriseMe    |-> TRUE,
     correlationId |-> data.correlationId,
     throwError    |-> FALSE]

\* requestBody of UpdateItem, as params of create-data.
UpdateItemParams(data) ==
    [itemId        |-> data.result.itemId,
     isRed         |-> FALSE,
     isBlue        |-> FALSE,
     surpriseMe    |-> TRUE,
     correlationId |-> data.correlationId,
     throwError    |-> FALSE]

\* requestBody of DeleteItem, as params of delete-data.
DeleteItemParams(data) ==
    [itemId        |-> data.result.itemId,
     correlationId |-> data.correlationId,
     throwError    |-> FALSE]

\* A GetItems that asks for the item created last.
GetItemsParamsLastItem(data) ==
    [itemId        |-> data.result.itemId,
     correlationId |-> data.correlationId,
     throwError    |-> FALSE]

\* queryParameters of GetItems, as params of read-data.
GetItemsParams(data) ==
    [itemId        |-> "",
     correlationId |-> data.correlationId,
     throwError    |-> FALSE]

\* A selector that takes the correlationId of the response.
resultSelectorCorrelationId(ResponseBody) == [itemId |-> ResponseBody.correlationId]

\* resultSelector of CreateItem: { 'itemId.$': '$.ResponseBody.requestId' }.
resultSelector(ResponseBody) == [itemId |-> ResponseBody.requestId]

\* resultPath of a task: the data with one field replaced or added.
ResultPath(data, field, value) ==
    [k \in DOMAIN data \cup {field} |-> IF k = field THEN value ELSE data[k]]

\* lambdaCatchProps: a Catch of States.ALL puts the error at $.error.
lambdaCatchProps(data, error) == ResultPath(data, "error", error)

\* A task of CallApiGatewayRestApiEndpoint fails when the API answers with a
\* status other than 200: the integration responses map a thrown error to
\* 400 or 500.
TaskFailed(r) == r.statusCode # 200

\* A Create task whose Catch goes on to UpdateItem.
CreateItemNextAlways(r) == "UpdateItem"

\* Where CreateItem goes: next(updateItem), addCatch(reduceCount).
CreateItemNext(r) == IF TaskFailed(r) THEN "ReduceCount" ELSE "UpdateItem"

\* An Update task whose Catch goes on to ReduceCount.
UpdateItemNextNoDelete(r) == "ReduceCount"

\* Where UpdateItem goes: next(reduceCount), addCatch(deleteItem).
UpdateItemNext(r) == IF TaskFailed(r) THEN "DeleteItem" ELSE "ReduceCount"

\* Where DeleteItem goes: next(reduceCount), addCatch(reduceCount).
DeleteItemNext(r) == "ReduceCount"

\* A GetItems that succeeds whatever the Read answers.
GetItemsNextSuccess(r) == "Success"

\* Where GetItems goes: next(success), addCatch(failed).
GetItemsNext(r) == IF TaskFailed(r) THEN "Failed" ELSE "Success"

\* A sum that loses the second term.
mathAddNothing(a, b) == a

\* JsonPath.mathAdd.
mathAdd(a, b) == a + b

\* A condition that holds down to 0.
iterationsRemainingOrZero(data) == data.count.remaining >= 0

\* A condition that holds down to 2.
iterationsRemainingAboveOne(data) == data.count.remaining > 1

\* Condition.numberGreaterThan('$.count.remaining', 0).
iterationsRemaining(data) == data.count.remaining > 0

\* One completed state, for the history.
Step(state, ok, r) ==
    [state     |-> state,
     ok        |-> ok,
     itemId    |-> IF state \in {"UpdateItem", "DeleteItem"}
                   THEN last.params.itemId ELSE "",
     requestId |-> IF state \in TaskStates THEN last.requestId ELSE "",
     remaining |-> IF run.state \in LoopStates \cup {"GetItems"}
                   THEN run.data.count.remaining ELSE 0]

\* aws stepfunctions start-execution: with a name and any input.
StartExecution ==
    /\ run.state = "NotStarted"
    /\ \E name \in ExecutionNames, input \in ExecutionInputs :
         run' = [state |-> "StartPass", name |-> name, input |-> input,
                 data |-> input]
    /\ UNCHANGED <<table, now, calls, last, created, updated, deleted, scenario, log, invocations>>

\* Pass state StartPass.
StartPass ==
    /\ run.state = "StartPass"
    /\ run' = [run EXCEPT !.state = "CreateItem",
                          !.data = StartPassParameters(run.name, run.data)]
    /\ log' = Append(log, Step("StartPass", TRUE, NoCall.out))
    /\ UNCHANGED <<table, now, calls, last, created, updated, deleted, scenario, invocations>>

\* Task state CreateItem calls POST /.
CreateItemTask ==
    /\ run.state = "CreateItem"
    /\ Create({CreateItemParams(run.data)}, Faults, MaxWorkflowCalls)

\* CreateItem completes: the id of the new item is put at $.result.
CreateItemResult ==
    /\ run.state = "CreateItem"
    /\ last.op = "Create"
    /\ run' = [run EXCEPT
                 !.state = CreateItemNext(Out),
                 !.data = IF TaskFailed(Out)
                          THEN lambdaCatchProps(run.data, Out.payload)
                          ELSE ResultPath(run.data, "result",
                                          resultSelector(Out.response))]
    /\ log' = Append(log, Step("CreateItem", ~TaskFailed(Out), Out))
    /\ last' = NoCall
    /\ UNCHANGED <<table, now, calls, created, updated, deleted, scenario, invocations>>

\* Task state UpdateItem calls PUT /.
UpdateItemTask ==
    /\ run.state = "UpdateItem"
    /\ Update({UpdateItemParams(run.data)}, Faults, MaxWorkflowCalls)

\* UpdateItem completes: the result is discarded.
UpdateItemResult ==
    /\ run.state = "UpdateItem"
    /\ last.op = "Update"
    /\ run' = [run EXCEPT
                 !.state = UpdateItemNext(Out),
                 !.data = IF TaskFailed(Out)
                          THEN lambdaCatchProps(run.data, Out.payload)
                          ELSE run.data]
    /\ log' = Append(log, Step("UpdateItem", ~TaskFailed(Out), Out))
    /\ last' = NoCall
    /\ UNCHANGED <<table, now, calls, created, updated, deleted, scenario, invocations>>

\* Task state DeleteItem calls DELETE /.
DeleteItemTask ==
    /\ run.state = "DeleteItem"
    /\ Delete({DeleteItemParams(run.data)}, Faults, MaxWorkflowCalls)

\* DeleteItem completes: the result is discarded.
DeleteItemResult ==
    /\ run.state = "DeleteItem"
    /\ last.op = "Delete"
    /\ run' = [run EXCEPT
                 !.state = DeleteItemNext(Out),
                 !.data = IF TaskFailed(Out)
                          THEN lambdaCatchProps(run.data, Out.payload)
                          ELSE run.data]
    /\ log' = Append(log, Step("DeleteItem", ~TaskFailed(Out), Out))
    /\ last' = NoCall
    /\ UNCHANGED <<table, now, calls, created, updated, deleted, scenario, invocations>>

\* Pass state ReduceCount.
ReduceCount ==
    /\ run.state = "ReduceCount"
    /\ run' = [run EXCEPT
                 !.state = "CountChoice",
                 !.data = ResultPath(run.data, "count",
                              [remaining |-> mathAdd(run.data.count.remaining, -1)])]
    /\ log' = Append(log, Step("ReduceCount", TRUE, NoCall.out))
    /\ UNCHANGED <<table, now, calls, last, created, updated, deleted, scenario, invocations>>

\* Choice state CountChoice.
CountChoice ==
    /\ run.state = "CountChoice"
    /\ run' = [run EXCEPT !.state = IF iterationsRemaining(run.data)
                                    THEN "CreateItem" ELSE "GetItems"]
    /\ log' = Append(log, Step("CountChoice", TRUE, NoCall.out))
    /\ UNCHANGED <<table, now, calls, last, created, updated, deleted, scenario, invocations>>

\* Task state GetItems calls GET /.
GetItemsTask ==
    /\ run.state = "GetItems"
    /\ Read({GetItemsParams(run.data)}, Faults, MaxWorkflowCalls)

\* GetItems completes: the items read replace the data, and the execution
\* ends in Success; a failed task ends it in Failed.
GetItemsResult ==
    /\ run.state = "GetItems"
    /\ last.op = "Read"
    /\ run' = [run EXCEPT
                 !.state = GetItemsNext(Out),
                 !.data = IF TaskFailed(Out)
                          THEN lambdaCatchProps(run.data, Out.payload)
                          ELSE [result |-> [count |-> Out.response.count,
                                            items |-> Out.response.items]]]
    /\ log' = Append(log, Step("GetItems", ~TaskFailed(Out), Out))
    /\ last' = NoCall
    /\ UNCHANGED <<table, now, calls, created, updated, deleted, scenario, invocations>>

\* One execution of the state machine, over a table that is empty when it
\* starts and that no other caller writes.
NextWorkflow ==
    \/ StartExecution
    \/ StartPass
    \/ CreateItemTask
    \/ CreateItemResult
    \/ UpdateItemTask
    \/ UpdateItemResult
    \/ DeleteItemTask
    \/ DeleteItemResult
    \/ ReduceCount
    \/ CountChoice
    \/ GetItemsTask
    \/ GetItemsResult

SpecWorkflow == Init /\ [][NextWorkflow]_vars

\* The state machine takes its next step, and every call of the API returns.
FairWorkflow == SpecWorkflow /\ WF_vars(NextWorkflow)

\* The execution is stopped where it is: by the timeout of the state
\* machine, or by whoever started it.  The call it was waiting for has been
\* served or is never made.
StopExecution ==
    /\ run.state \notin {"NotStarted", "Success", "Failed", "Aborted"}
    /\ run' = [run EXCEPT !.state = "Aborted"]
    /\ UNCHANGED <<table, now, calls, last, created, updated, deleted, scenario, log, invocations>>

\* One execution that may be stopped at any point.
NextAbort ==
    \/ NextWorkflow
    \/ StopExecution

SpecAbort == Init /\ [][NextAbort]_vars

\* ------------------------------------------------------------------ claims
\* The claims are stated about the last invocation: its request (last.params,
\* last.rnd, last.fault), the table before it (last.before) and after it
\* (table), and its outcome (last.out).

IsWrite == last.op \in {"Create", "Update"}

\* The request supplies the field.
Supplied(x) == x # undefined /\ x # ""

\* The colour flags a write classifies: the request's, or the random draws
\* of a surpriseMe request.
WantsRed == IF last.params.surpriseMe THEN last.rnd.red ELSE last.params.isRed

WantsBlue == IF last.params.surpriseMe THEN last.rnd.blue ELSE last.params.isBlue

\* Failure injection fires in the last invocation.
Injected ==
    IF IsWrite /\ last.params.surpriseMe THEN last.rnd.throw ELSE last.params.throwError

\* The table service serves the request of the last invocation.
Served == last.fault = NoFault

\* The write passes the checks made before the colours are classified.
ReachesClassification ==
    /\ IsWrite
    /\ ~Injected
    /\ last.op = "Create" => ~Supplied(last.params.itemId)
    /\ last.op = "Update" => Supplied(last.params.itemId)

\* The id the write is for.
WrittenId ==
    IF Supplied(last.params.itemId) THEN last.params.itemId ELSE last.requestId

\* The write to the table succeeds: the service serves it, and an Update
\* finds its item.
WriteSucceeds ==
    /\ Served
    /\ last.op = "Update" => last.params.itemId \in DOMAIN last.before

SucceedsWith(colour) ==
    /\ Out.colourMetric = colour
    /\ WriteSucceeds =>
         /\ Out.success /\ Out.statusCode = 200
         /\ Out.response.colour = colour
         /\ WrittenId \in DOMAIN table /\ table[WrittenId].Colour = colour

RejectedWith(colour, message) ==
    /\ Out.colourMetric = colour
    /\ ~Out.success /\ Out.statusCode = 400 /\ Out.message = message
    /\ table = last.before

\* C1: every Create or Update that reaches classification classifies
\* (no flag) as BLACK and is a client error "Missing colour choice", (both
\* flags) as PURPLE and is a client error "Invalid colour choices", (red
\* alone) as RED and (blue alone) as BLUE, and the last two succeed when the
\* write to the table succeeds.
C1_Classification ==
    ReachesClassification =>
        /\ ~WantsRed /\ ~WantsBlue => RejectedWith("BLACK", "Missing colour choice")
        /\ WantsRed /\ WantsBlue => RejectedWith("PURPLE", "Invalid colour choices")
        /\ WantsRed /\ ~WantsBlue => SucceedsWith("RED")
        /\ ~WantsRed /\ WantsBlue => SucceedsWith("BLUE")

\* An Update of a stored item, with both flags, is rejected as PURPLE.
C1_Witness ==
    /\ last.op = "Update" /\ ReachesClassification
    /\ last.params.itemId \in DOMAIN last.before
    /\ WantsRed /\ WantsBlue
    /\ Out.colourMetric = "PURPLE" /\ Out.statusCode = 400

\* C2: an Update with valid colour flags for an id that is not in the table
\* is a client error (400) "<id> does not exist" when the table service
\* serves it, and whatever the request and the service do, the id is not in
\* the table afterwards.
C2_UpdateAbsent ==
    /\ last.op = "Update"
    /\ Supplied(last.params.itemId)
    /\ last.params.itemId \notin DOMAIN last.before
    =>  /\ last.params.itemId \notin DOMAIN table
        /\ table = last.before
        /\ ~Out.success
        /\ ~Injected /\ Served /\ WantsRed # WantsBlue =>
             /\ Out.statusCode = 400
             /\ Out.message = last.params.itemId \o " does not exist"

\* An Update with one colour for an absent id reaches the table and is refused.
C2_Witness ==
    /\ last.op = "Update"
    /\ Supplied(last.params.itemId)
    /\ last.params.itemId \notin DOMAIN last.before
    /\ ~Injected /\ Served /\ WantsRed # WantsBlue
    /\ Out.storeCalled
    /\ Out.statusCode = 400

\* C3: a Delete of an id a successful Delete has removed (more generally,
\* of an id that is not in the table) is a client error, never a success.
C3_DeleteTwice ==
    /\ last.op = "Delete"
    /\ last.params.itemId \in deleted
    /\ last.params.itemId \notin DOMAIN last.before
    =>  /\ ~Out.success
        /\ Out.statusCode = 400

\* C4: a Create that carries an id writes nothing and is rejected, as a
\* client error unless failure injection fires first; a record a Create
\* stores has the request id as its id; an Update or a Delete without an id
\* writes and deletes nothing and is rejected, as a client error unless
\* failure injection fires first.
C4_IdRules ==
    /\ last.op = "Create" /\ Supplied(last.params.itemId) =>
         /\ ~Out.success /\ table = last.before
         /\ ~Injected => Out.statusCode = 400
    /\ last.op = "Create" =>
         /\ DOMAIN table \subseteq DOMAIN last.before \cup {last.requestId}
         /\ \A k \in DOMAIN last.before : table[k] = last.before[k]
         /\ Out.success =>
              /\ Out.response.itemId = last.requestId
              /\ last.requestId \in DOMAIN table
              /\ table[last.requestId].ItemId = last.requestId
    /\ last.op \in {"Update", "Delete"} /\ ~Supplied(last.params.itemId) =>
         /\ ~Out.success /\ table = last.before
         /\ ~Injected => Out.statusCode = 400

\* A Create with an id that is free and with one colour is rejected.
C4_Witness ==
    /\ last.op = "Create"
    /\ Supplied(last.params.itemId)
    /\ last.params.itemId \notin DOMAIN last.before
    /\ ~Injected /\ WantsRed /\ ~WantsBlue
    /\ Out.statusCode = 400 /\ table = last.before

\* The records of a table with the given correlationId.
WithCorrelationId(tbl, c) == {k \in DOMAIN tbl : tbl[k].CorrelationId = c}

\* C5: a Read with a correlationId that no record has is a client error
\* "No items found"; a Read without id and correlationId over a table that
\* is not empty succeeds with all the records and their number.
C5_Read ==
    last.op = "Read" /\ ~Injected /\ Served =>
        /\ /\ Supplied(last.params.correlationId)
           /\ WithCorrelationId(last.before, last.params.correlationId) = {}
           => /\ Out.statusCode = 400 /\ ~Out.success
              /\ Out.message = "No items found"
        /\ /\ ~Supplied(last.params.itemId)
           /\ ~Supplied(last.params.correlationId)
           /\ DOMAIN last.before # {}
           => /\ Out.success
              /\ Out.response.count = Cardinality(DOMAIN last.before)
              /\ Out.response.items = {last.before[k] : k \in DOMAIN last.before}

\* A Read by a correlationId no record has, over a table with two records.
C5_Witness ==
    /\ last.op = "Read"
    /\ Supplied(last.params.correlationId)
    /\ WithCorrelationId(last.before, last.params.correlationId) = {}
    /\ Cardinality(DOMAIN last.before) = 2
    /\ Out.statusCode = 400

\* A Read of everything, over a table with three records.
C5_ReadsAll ==
    /\ last.op = "Read"
    /\ ~Supplied(last.params.itemId) /\ ~Supplied(last.params.correlationId)
    /\ Out.success /\ Out.response.count = 3

\* C6: after a Create stored X and a later Update of X succeeded, a Read
\* of X (over the whole table, or over the correlationId the Update wrote)
\* returns exactly one record: the item the last Update built, with its
\* colour and its UpdateTime, not the item of the Create.
C6_RoundTrip ==
    /\ last.op = "Read" /\ ~Injected /\ Served
    /\ Supplied(last.params.itemId)
    /\ last.params.itemId \in DOMAIN created
    /\ last.params.itemId \in DOMAIN updated
    /\ last.params.itemId \notin deleted
    /\ \/ ~Supplied(last.params.correlationId)
       \/ last.params.correlationId = updated[last.params.itemId].CorrelationId
    =>  /\ Out.success
        /\ Out.response.count = 1
        /\ Out.response.items = {updated[last.params.itemId]}
        /\ \A i \in Out.response.items : i.ItemId = last.params.itemId

\* A Read of X returns a colour and an UpdateTime that differ from those
\* the Create of X wrote.
C6_Witness ==
    /\ last.op = "Read"
    /\ Supplied(last.params.itemId)
    /\ last.params.itemId \in DOMAIN created
    /\ last.params.itemId \in DOMAIN updated
    /\ Out.success
    /\ \E i \in Out.response.items :
         /\ i.Colour # created[last.params.itemId].Colour
         /\ i.UpdateTime # created[last.params.itemId].UpdateTime
         /\ i.UpdateTime = updated[last.params.itemId].UpdateTime

\* The steps of the end-to-end scenario, on the item X of the last invocation.
ScenarioCreate ==
    /\ last.op = "Create" /\ ~Injected /\ Served
    /\ ~Supplied(last.params.itemId)
    /\ WantsRed /\ ~WantsBlue

ScenarioUpdate ==
    /\ last.op = "Update" /\ Served
    /\ last.params.itemId \in DOMAIN scenario
    /\ scenario[last.params.itemId] = "updated"

ScenarioDelete ==
    /\ last.op = "Delete" /\ Served
    /\ last.params.itemId \in DOMAIN scenario
    /\ scenario[last.params.itemId] = "deleted"

ScenarioRead ==
    /\ last.op = "Read" /\ ~Injected /\ Served
    /\ last.params.itemId \in DOMAIN scenario
    /\ scenario[last.params.itemId] = "deleted"

\* The first three steps: Create (red alone) succeeds with RED and the
\* request id, Update (no colour) is a client error, Delete succeeds.
ScenarioSteps ==
    /\ ScenarioCreate =>
         /\ Out.success /\ Out.response.colour = "RED"
         /\ Out.response.itemId = last.requestId
         /\ last.requestId \in DOMAIN table
    /\ ScenarioUpdate =>
         /\ ~Out.success /\ Out.statusCode = 400
         /\ table = last.before
    /\ ScenarioDelete =>
         /\ Out.success
         /\ last.params.itemId \notin DOMAIN table

\* The records a Read fetches first.
Fetched ==
    IF Supplied(last.params.correlationId)
    THEN WithCorrelationId(last.before, last.params.correlationId)
    ELSE DOMAIN last.before

\* C7 as stated: in every state of the table the scenario ends with
\* Read(id = X) being a client error "No items found".
C7_Original ==
    /\ ScenarioSteps
    /\ ScenarioRead =>
         /\ ~Out.success /\ Out.statusCode = 400
         /\ Out.message = "No items found"

\* C7 as amended: the scenario ends with Read(id = X) being a client error
\* "No items found" when the set it fetches first is empty, and a success
\* with count 0 and no record when that set holds other records.
C7_Scenario ==
    /\ ScenarioSteps
    /\ ScenarioRead =>
         /\ Fetched = {} =>
              /\ ~Out.success /\ Out.statusCode = 400
              /\ Out.message = "No items found"
         /\ Fetched # {} =>
              /\ Out.success
              /\ Out.response.count = 0 /\ Out.response.items = {}

\* The scenario ends, over a table with another record, in a Read that
\* succeeds with count 0.
C7_Witness ==
    /\ ScenarioRead
    /\ ~Supplied(last.params.correlationId)
    /\ DOMAIN last.before # {}
    /\ Out.success /\ Out.response.count = 0

\* The scenario ends, over an empty table, in a client error.
C7_EmptyTable ==
    /\ ScenarioRead
    /\ DOMAIN last.before = {}
    /\ Out.statusCode = 400

\* C8 as stated: a Create with throwError set is an internal error (500)
\* and writes nothing, whatever the other fields of the request.
C8_Original ==
    last.op = "Create" /\ last.params.throwError =>
        /\ ~Out.success /\ Out.statusCode = 500
        /\ table = last.before

\* C8 as amended: a Create with throwError set and surpriseMe not set is an
\* internal error (500) that makes no call to the table, whatever the colour
\* flags, the itemId and the correlationId; with surpriseMe set the
\* throwError field is not read, and the Create is that internal error
\* exactly when the random draw says so.
C8_ThrowError ==
    /\ last.op = "Create" /\ last.params.throwError /\ ~last.params.surpriseMe =>
         /\ ~Out.success /\ Out.statusCode = 500
         /\ Out.message = "You asked me to throw an error"
         /\ ~Out.storeCalled /\ table = last.before
    /\ last.op = "Create" /\ last.params.surpriseMe =>
         (Out.message = "You asked me to throw an error") = last.rnd.throw

\* A Create with throwError, one colour and no id is an internal error.
C8_Witness ==
    /\ last.op = "Create" /\ last.params.throwError /\ ~last.params.surpriseMe
    /\ last.params.isRed /\ ~last.params.isBlue
    /\ ~Supplied(last.params.itemId)
    /\ Out.statusCode = 500

\* C9 as stated: an Update without an id is a client error "itemId is
\* required for an update" whatever its other inputs.
C9_Original ==
    last.op = "Update" /\ ~Supplied(last.params.itemId) =>
        /\ Out.statusCode = 400
        /\ Out.message = "itemId is required for an update"

\* C9 as amended: an Update without an id is a client error "itemId is
\* required for an update" whatever its colour flags and correlationId,
\* before the colours are classified and before any call to the table,
\* unless failure injection fires: that check is made first and makes the
\* Update an internal error.
C9_MissingId ==
    last.op = "Update" /\ ~Supplied(last.params.itemId) =>
        /\ ~Out.storeCalled /\ Out.colourMetric = "none"
        /\ table = last.before
        /\ ~Injected =>
             /\ Out.statusCode = 400
             /\ Out.message = "itemId is required for an update"
        /\ Injected =>
             /\ Out.statusCode = 500
             /\ Out.message = "You asked me to throw an error"

\* An Update without an id and with both colour flags is refused for the id.
C9_Witness ==
    /\ last.op = "Update" /\ ~Supplied(last.params.itemId)
    /\ ~Injected /\ WantsRed /\ WantsBlue
    /\ Out.message = "itemId is required for an update"

\* C10: every invocation that fails is a client error or an internal
\* error: 400 with one warn log, one WARNING count and no error log or ERROR
\* count, or 500 with one error log, one ERROR count and no warn log or
\* WARNING count; the error thrown packs the status, the message and the
\* request id of the invocation.  Injected failures and unexpected errors
\* of the table service are internal errors, and what a served request
\* without failure injection fails with is a client error.
C10_ErrorMapping ==
    last.op # "none" /\ ~Out.success =>
        /\ Out.statusCode \in {400, 500}
        /\ Out.statusCode = 400 =>
             /\ Out.warn = 1 /\ Out.WARNING = 1
             /\ Out.error = 0 /\ Out.ERROR = 0
        /\ Out.statusCode = 500 =>
             /\ Out.error = 1 /\ Out.ERROR = 1
             /\ Out.warn = 0 /\ Out.WARNING = 0
        /\ Out.payload = [statusCode |-> Out.statusCode,
                          message    |-> Out.message,
                          requestId  |-> RequestId(calls)]
        /\ Out.response = NoResponse
        /\ Injected \/ last.fault = "InternalServerError" => Out.statusCode = 500
        /\ ~Injected /\ Served => Out.statusCode = 400

\* A Read that the table service fails is an internal error.
C10_Witness ==
    /\ last.op = "Read" /\ last.fault = "InternalServerError"
    /\ Out.statusCode = 500 /\ Out.ERROR = 1 /\ Out.error = 1

\* The colour a write that reaches classification counts.
Classified == Colour(WantsRed, WantsBlue)

\* The WARNING and ERROR counts of the last invocation.
SeverityCounts == Out.WARNING + Out.ERROR

\* C11 as stated: every Create or Update, whatever its inputs, emits one
\* classification count keyed by the resulting colour, and one WARNING or
\* ERROR count when it does not succeed.
C11_Original ==
    IsWrite =>
        /\ Out.colourMetric = Classified
        /\ ~Out.success => SeverityCounts = 1

\* C11 as amended: a Create or Update that reaches classification emits one
\* classification count keyed by the colour, whether or not it then calls
\* the table and whatever the table answers; one that fails before (failure
\* injection, the itemId check) emits none; every Create or Update that
\* does not succeed emits one WARNING or ERROR count, and one that succeeds
\* emits neither.
C11_Metrics ==
    IsWrite =>
        /\ ReachesClassification => Out.colourMetric = Classified
        /\ ~ReachesClassification =>
             /\ Out.colourMetric = "none"
             /\ ~Out.storeCalled /\ ~Out.success
        /\ ~Out.success => SeverityCounts = 1
        /\ Out.success => SeverityCounts = 0

\* A Create with one colour that the table service fails counts RED and ERROR.
C11_Witness ==
    /\ last.op = "Create" /\ ReachesClassification
    /\ last.fault = "InternalServerError"
    /\ Out.storeCalled /\ ~Out.success
    /\ Out.colourMetric = "RED" /\ Out.ERROR = 1 /\ Out.WARNING = 0

\* An Update stopped by failure injection counts ERROR and no colour.
C11_Injected ==
    /\ last.op = "Update" /\ Injected
    /\ Out.colourMetric = "none" /\ Out.ERROR = 1

\* The correlation token a caller supplies, or the request id of the call.
ExpectedToken ==
    IF Supplied(last.params.correlationId)
    THEN last.params.correlationId ELSE last.requestId

\* C12 as stated: the success response of each of the four operations
\* carries the correlationId the caller supplied, or the request id of the
\* call when the caller supplied none.
C12_Original ==
    last.op # "none" /\ Out.success =>
        Out.response.correlationId = ExpectedToken

\* C12 as amended: the success response of a Create, an Update or a Delete
\* carries the correlationId the caller supplied, or the request id of the
\* call when the caller supplied none; the success response of a Read
\* carries the correlationId the caller supplied, or the empty string when
\* the caller supplied none; every success response carries the request id.
C12_Token ==
    last.op # "none" /\ Out.success =>
        /\ Out.response.requestId = last.requestId
        /\ last.op # "Read" => Out.response.correlationId = ExpectedToken
        /\ last.op = "Read" =>
             Out.response.correlationId =
                 IF Supplied(last.params.correlationId)
                 THEN last.params.correlationId ELSE ""

\* A Read without a correlationId succeeds and answers with an empty token.
C12_Witness ==
    /\ last.op = "Read" /\ Out.success
    /\ ~Supplied(last.params.correlationId)
    /\ Out.response.correlationId = ""
    /\ Out.response.correlationId # last.requestId

\* A Delete without a correlationId answers with its request id.
C12_Defaulted ==
    /\ last.op = "Delete" /\ Out.success
    /\ ~Supplied(last.params.correlationId)
    /\ Out.response.correlationId = last.requestId

\* ----------------------------------------------------------- workflow claims
\* The claims about the state machine are stated about the execution (run),
\* the states it has completed (log) and the call it is waiting for (last).

Terminal == run.state \in TerminalStates

\* The data of the execution holds the counter.
HasCount == run.state \in LoopStates \cup {"GetItems", "Failed"}

remainingIterations == run.data.count.remaining

lastCreatedId == run.data.result.itemId

\* The completed states of one name, by their place in the log.
Steps(state) == {i \in 1..Len(log) : log[i].state = state}

\* The state the execution went to from the i-th completed state.
NextState(i) == IF i < Len(log) THEN log[i + 1].state ELSE run.state

\* The iteration the i-th completed state belongs to.
IterationOf(i) == Cardinality({j \in 1..(i - 1) : log[j].state = "ReduceCount"}) + 1

\* The calls a task state has made: those completed, and the one pending.
Invoked(state) ==
    Cardinality(Steps(state))
        + (IF run.state = state /\ last.op # "none" THEN 1 ELSE 0)

\* The states of an iteration that call Update or Delete.
UpdatesIn(n) == {j \in Steps("UpdateItem") : IterationOf(j) = n}

DeletesIn(n) == {j \in Steps("DeleteItem") : IterationOf(j) = n}

\* The counter is within 0..total, CountChoice is entered with it at
\* 0..total-1, the loop with it above 0 and GetItems with it at 0.
C13_Range ==
    HasCount =>
        /\ remainingIterations \in 0..total
        /\ run.state \in {"CreateItem", "UpdateItem", "DeleteItem", "ReduceCount"} =>
             remainingIterations > 0
        /\ run.state \in {"GetItems", "Failed"} => remainingIterations = 0

\* A step changes the counter in ReduceCount alone, by -1; CountChoice goes
\* to CreateItem when the counter is above 0 and to GetItems otherwise, and
\* nothing else goes to GetItems.
C13_Step ==
    /\ HasCount /\ HasCount' =>
         remainingIterations' =
             IF run.state = "ReduceCount"
             THEN remainingIterations - 1 ELSE remainingIterations
    /\ run.state = "ReduceCount" => run'.state = "CountChoice"
    /\ run.state = "CountChoice" =>
         run'.state = IF remainingIterations > 0 THEN "CreateItem" ELSE "GetItems"
    /\ run'.state = "GetItems" /\ run.state # "GetItems" =>
         run.state = "CountChoice" /\ remainingIterations = 0
    /\ run'.state = "StartPass" => run.state = "NotStarted"

\* C13: in every state of an execution after StartPass the counter
\* count.remaining is an integer between 0 and total; it never increases and
\* changes only in ReduceCount, by exactly -1; CountChoice goes to CreateItem
\* exactly when the counter is above 0 and to GetItems otherwise, so that
\* GetItems (the Read) is entered only with the counter at 0.
C13_Counter == [](C13_Range) /\ [][C13_Step]_vars

\* GetItems is entered with the counter at 0 after total times ReduceCount.
C13_Witness ==
    /\ run.state = "GetItems" /\ last.op = "none"
    /\ remainingIterations = 0
    /\ Cardinality(Steps("ReduceCount")) = total
    /\ \E i \in Steps("CountChoice") : log[i].remaining = total - 1

\* C14: every execution ends: as the state machine takes its steps and
\* every call of the API returns, the execution reaches Success or Failed,
\* whatever the calls answer, and when it does CreateItem has been invoked
\* exactly total times.
C14_Terminates ==
    /\ <>Terminal
    /\ [](Terminal => /\ Invoked("CreateItem") = total
                      /\ Cardinality(Steps("ReduceCount")) = total)
    /\ [](Invoked("CreateItem") <= total)

\* An execution ends in which a Create, an Update and a Delete have failed.
C14_Witness ==
    /\ Terminal
    /\ Invoked("CreateItem") = total
    /\ \E i \in Steps("CreateItem") : ~log[i].ok
    /\ \E i \in Steps("UpdateItem") : ~log[i].ok
    /\ \E i \in Steps("DeleteItem") : ~log[i].ok

\* C15: whenever CreateItem fails (a client error, an internal error, a
\* fault of the table service) the next state is ReduceCount, and neither
\* Update nor Delete is called in that iteration; whenever CreateItem
\* succeeds the next state is UpdateItem, the id of the item created is at
\* $.result.itemId, and the Update is called for that id.
C15_AfterCreate ==
    /\ \A i \in Steps("CreateItem") :
         /\ ~log[i].ok =>
              /\ NextState(i) = "ReduceCount"
              /\ UpdatesIn(IterationOf(i)) = {} /\ DeletesIn(IterationOf(i)) = {}
         /\ log[i].ok =>
              /\ NextState(i) = "UpdateItem"
              /\ log[i].requestId \in DOMAIN created
              /\ i < Len(log) => log[i + 1].itemId = log[i].requestId
              /\ i = Len(log) => lastCreatedId = log[i].requestId
    /\ last.op \in {"Update", "Delete"} =>
         /\ Len(log) > 0 /\ log[Len(log)].state \in {"CreateItem", "UpdateItem"}
         /\ last.params.itemId = lastCreatedId
         /\ last.params.itemId \in DOMAIN created

\* A CreateItem that failed was followed by ReduceCount, and a later one
\* that succeeded by an Update of the item it created.
C15_Witness ==
    \E i, j \in Steps("CreateItem") :
        /\ i < j /\ j < Len(log)
        /\ ~log[i].ok /\ log[i + 1].state = "ReduceCount"
        /\ log[j].ok /\ log[j + 1].state = "UpdateItem"
        /\ log[j + 1].itemId = log[j].requestId

\* C16: whenever UpdateItem fails the next state is DeleteItem, called for
\* the id at $.result.itemId, which is the id the Update was for; after
\* DeleteItem the next state is ReduceCount whether the Delete succeeded or
\* failed; whenever UpdateItem succeeds the next state is ReduceCount and no
\* Delete is called in that iteration.
C16_AfterUpdate ==
    /\ \A i \in Steps("UpdateItem") :
         /\ ~log[i].ok =>
              /\ NextState(i) = "DeleteItem"
              /\ i < Len(log) => log[i + 1].itemId = log[i].itemId
              /\ i = Len(log) => lastCreatedId = log[i].itemId
         /\ log[i].ok =>
              /\ NextState(i) = "ReduceCount"
              /\ DeletesIn(IterationOf(i)) = {}
    /\ \A i \in Steps("DeleteItem") :
         /\ NextState(i) = "ReduceCount"
         /\ i > 1 /\ log[i - 1].state = "UpdateItem" /\ ~log[i - 1].ok
    /\ last.op = "Delete" => last.params.itemId = lastCreatedId

\* An Update failed, the Delete that followed failed too, and the
\* execution went on to ReduceCount.
C16_Witness ==
    \E i \in Steps("DeleteItem") :
        /\ ~log[i].ok
        /\ log[i - 1].state = "UpdateItem" /\ ~log[i - 1].ok
        /\ log[i].itemId = log[i - 1].itemId
        /\ i < Len(log) /\ log[i + 1].state = "ReduceCount"

\* The last completed state is GetItems, with the given outcome.
ReadEnded(ok) ==
    /\ Len(log) > 0
    /\ log[Len(log)].state = "GetItems"
    /\ log[Len(log)].ok = ok

\* C17: an execution ends in Failed exactly when its GetItems (the final
\* Read) fails and in Success exactly when it succeeds; a CreateItem, an
\* UpdateItem or a DeleteItem that fails leads to a state of the loop, never
\* to Failed.
C17_Outcome ==
    /\ run.state = "Failed" <=> ReadEnded(FALSE)
    /\ run.state = "Success" <=> ReadEnded(TRUE)
    /\ \A i \in 1..Len(log) :
         log[i].state \in {"CreateItem", "UpdateItem", "DeleteItem"} =>
             NextState(i) \in LoopStates

\* An execution in which a Create, an Update and a Delete failed ends in
\* Success.
C17_Witness ==
    /\ run.state = "Success"
    /\ \E i \in Steps("CreateItem") : ~log[i].ok
    /\ \E i \in Steps("UpdateItem") : ~log[i].ok
    /\ \E i \in Steps("DeleteItem") : ~log[i].ok

\* An execution whose Creates all succeeded ends in Failed: the Read failed.
C17_Failed ==
    /\ run.state = "Failed"
    /\ \A i \in Steps("CreateItem") : log[i].ok

\* The iterations in which the Create succeeded and the Update failed.
CleanedUp ==
    {n \in 1..total :
        /\ \E i \in Steps("CreateItem") : IterationOf(i) = n /\ log[i].ok
        /\ \E i \in Steps("UpdateItem") : IterationOf(i) = n /\ ~log[i].ok}

\* C18: in every execution the Read is called at most once, with the
\* counter at 0 and after total times ReduceCount; in every execution that
\* has ended it has been called exactly once, and the number of Deletes
\* called is the number of iterations in which the Create succeeded and the
\* Update failed.
C18_Counts ==
    /\ Invoked("GetItems") <= 1
    /\ Invoked("GetItems") = 1 =>
         /\ Cardinality(Steps("ReduceCount")) = total
         /\ run.state = "GetItems" => remainingIterations = 0
         /\ \A i \in Steps("GetItems") : log[i].remaining = 0 /\ i = Len(log)
    /\ Terminal =>
         /\ Invoked("GetItems") = 1
         /\ Cardinality(Steps("ReduceCount")) = total
         /\ Cardinality(Steps("DeleteItem")) = Cardinality(CleanedUp)
         /\ \A n \in 1..total :
              Cardinality(DeletesIn(n)) = IF n \in CleanedUp THEN 1 ELSE 0

\* An execution has ended whose Creates all succeeded and whose Updates all
\* failed: one Delete in each iteration, one Read.
C18_Witness ==
    /\ Terminal
    /\ \A i \in Steps("CreateItem") : log[i].ok
    /\ \A i \in Steps("UpdateItem") : ~log[i].ok
    /\ Cardinality(Steps("DeleteItem")) = total
    /\ Cardinality(Steps("ReduceCount")) = total
    /\ Cardinality(Steps("GetItems")) = 1

\* The ids of the items the execution has updated with success.
UpdatedIds == {log[i].itemId : i \in {j \in Steps("UpdateItem") : log[j].ok}}

StartData ==
    [total         |-> total,
     count         |-> [remaining |-> total],
     result        |-> [itemId |-> ""],
     correlationId |-> run.name]

\* C20: whatever input an execution is started with (an iteration count,
\* the state of another run), StartPass replaces it: the counter is total,
\* $.result.itemId is empty and the correlationId is the name of the
\* execution, which every call of the execution carries; the execution
\* makes exactly total iterations.
C20_InputIgnored ==
    /\ Len(log) >= 1 => log[1].state = "StartPass"
    /\ Len(log) = 1 => run.state = "CreateItem" /\ run.data = StartData
    /\ run.state \in LoopStates =>
         /\ run.data.total = total
         /\ run.data.correlationId = run.name
    /\ last.op # "none" => last.params.correlationId = run.name
    /\ \A i \in Steps("CreateItem") :
         log[i].remaining = total + 1 - IterationOf(i)
    /\ Terminal =>
         /\ Invoked("CreateItem") = total
         /\ Cardinality(Steps("ReduceCount")) = total

\* An execution started with an iteration count of 1 has ended after total
\* iterations.
C20_Witness ==
    /\ Terminal
    /\ run.input.input = "iterations" /\ run.input.total = 1
    /\ run.input.total # total
    /\ Invoked("CreateItem") = total
    /\ \E i \in Steps("CreateItem") : log[i].remaining = 1

\* An execution started with the state of another run has begun anew.
C20_OtherState ==
    /\ run.input.input = "state"
    /\ Len(log) = 1
    /\ run.data = StartData
    /\ run.data.correlationId # run.input.correlationId

\* The records in the table that the execution created and no Update has
\* rewritten.
NeverUpdated == {k \in DOMAIN table : k \in DOMAIN created /\ k \notin DOMAIN updated}

\* The ids whose Delete the execution called and saw fail.
FailedDeleteIds ==
    {log[i].itemId : i \in {j \in Steps("DeleteItem") : ~log[j].ok}}
        \cup (IF last.op = "Delete" /\ ~Out.success THEN {last.params.itemId} ELSE {})

\* The id the iteration in progress has created.
CurrentIds ==
    {log[i].requestId :
        i \in {j \in Steps("CreateItem") :
                  log[j].ok /\ IterationOf(j) = Cardinality(Steps("ReduceCount")) + 1}}
        \cup (IF last.op = "Create" /\ Out.success THEN {last.requestId} ELSE {})

\* C21 as stated: wherever an execution is stopped, whatever the calls made
\* so far answered (failed Deletes included), at most one record that it
\* created and never updated is in the table.
C21_Original ==
    run.state = "Aborted" => Cardinality(NeverUpdated) <= 1

\* C21 as amended: wherever an execution is stopped, the records in the
\* table that it created and never updated are the one of the iteration in
\* progress, if it has created one, and those of the earlier iterations
\* whose Delete failed: at most one when no Delete has failed, and at most
\* one more than the number of failed Deletes.
C21_Leftover ==
    /\ NeverUpdated \subseteq FailedDeleteIds \cup CurrentIds
    /\ Cardinality(CurrentIds) <= 1
    /\ Cardinality(NeverUpdated) <= Cardinality(FailedDeleteIds) + 1
    /\ FailedDeleteIds = {} => Cardinality(NeverUpdated) <= 1

\* An execution is stopped after a Delete failed and the next iteration
\* created its item: two records created and never updated are left.
C21_Witness ==
    /\ run.state = "Aborted"
    /\ Cardinality(NeverUpdated) = 2
    /\ Cardinality(FailedDeleteIds) = 1
    /\ Cardinality(CurrentIds) = 1

\* An execution is stopped, no Delete having failed, with one such record.
C21_OneLeft ==
    /\ run.state = "Aborted"
    /\ FailedDeleteIds = {}
    /\ Cardinality(NeverUpdated) = 1

\* The execution has passed StartPass and still carries its data.
Started == run.state \in TaskStates \cup LoopStates \cup {"Failed"}

\* C23: the correlationId of an execution is set in StartPass from the name
\* of the execution and stays as it is: every Create, Update, Delete and
\* Read of the execution carries it, and every record the execution creates
\* or updates is stored with it.
C23_CorrelationId ==
    /\ Started => run.data.correlationId = run.name
    /\ last.op # "none" => last.params.correlationId = run.name
    /\ \A k \in DOMAIN table : table[k].CorrelationId = run.name
    /\ \A k \in DOMAIN created : created[k].CorrelationId = run.name
    /\ \A k \in DOMAIN updated : updated[k].CorrelationId = run.name

\* An execution started with an input that names another correlationId
\* has created one item, created and updated another, and reads them.
C23_Witness ==
    /\ run.state = "GetItems"
    /\ last.op = "Read"
    /\ run.input.input = "state"
    /\ run.input.correlationId # run.name
    /\ \E k \in DOMAIN table : k \in DOMAIN updated
    /\ \E k \in DOMAIN table : k \notin DOMAIN updated

\* C24: after any sequence of Create, Update and Delete calls every record
\* in the table has colour RED or BLUE: a call classified BLACK or PURPLE
\* fails before it writes to the table.
C24_Colours ==
    /\ \A k \in DOMAIN table : table[k].Colour \in {"RED", "BLUE"}
    /\ last.op # "none" /\ Out.colourMetric \in {"BLACK", "PURPLE"} =>
         /\ ~Out.success
         /\ ~Out.storeCalled
         /\ table = last.before

\* An Update of a stored item is classified PURPLE, and the item keeps its
\* colour.
C24_Witness ==
    /\ last.op = "Update"
    /\ Out.colourMetric = "PURPLE"
    /\ last.params.itemId \in DOMAIN table
    /\ table[last.params.itemId].Colour \in {"RED", "BLUE"}

\* C25: a Create, Update, Delete or Read that ends in an error leaves the
\* table as it was before the call (an Update rejected for its colours or
\* by failure injection changes no field of the stored item), and a Read
\* never changes the table.
C25_Frame ==
    /\ last.op # "none" /\ ~Out.success => table = last.before
    /\ last.op = "Read" => table = last.before

\* An Update of a stored item is rejected for its colours, or by failure
\* injection, and the item is stored as before.
C25_Witness ==
    /\ last.op = "Update"
    /\ ~Out.success
    /\ Injected \/ Out.colourMetric \in {"BLACK", "PURPLE"}
    /\ last.params.itemId \in DOMAIN last.before
    /\ table[last.params.itemId] = last.before[last.params.itemId]

\* A Create for an id that is stored is refused by the condition of the put.
C25_Refused ==
    /\ last.op \in {"Create", "Update"}
    /\ Served /\ Out.storeCalled /\ ~Out.success
    /\ table = last.before

\* The ids the successful Creates of iteration n returned.
CreatedIn(n) ==
    {log[i].requestId : i \in {j \in Steps("CreateItem") : log[j].ok /\ IterationOf(j) = n}}

\* The iteration in progress.
CurrentIteration == Cardinality(Steps("ReduceCount")) + 1

\* C26: Update and Delete are called only with the id the successful Create
\* of the same iteration returned: never with the empty id StartPass sets,
\* and never with an id of an earlier iteration, also after iterations in
\* which Create failed and left $.result.itemId as it was.
C26_SameIteration ==
    /\ \A i \in Steps("UpdateItem") \cup Steps("DeleteItem") :
         /\ log[i].itemId # ""
         /\ log[i].itemId \in CreatedIn(IterationOf(i))
    /\ last.op \in {"Update", "Delete"} =>
         /\ last.params.itemId # ""
         /\ last.params.itemId \in CreatedIn(CurrentIteration)

\* The first iteration created and updated an item; the Create of the
\* second failed, $.result.itemId still holds the id of the first, and the
\* second iteration ended without another Update or Delete.
C26_Witness ==
    /\ Len(log) > 0 /\ log[Len(log)].state = "ReduceCount"
    /\ CurrentIteration = 3
    /\ CreatedIn(1) # {} /\ UpdatesIn(1) # {}
    /\ CreatedIn(2) = {} /\ UpdatesIn(2) = {} /\ DeletesIn(2) = {}
    /\ lastCreatedId \in CreatedIn(1)

\* C27: the id at $.result.itemId after a successful CreateItem (the
\* requestId of the response of the Create) is the id under which that
\* Create stored the item, so the Update, and the Delete after a failed
\* Update, are for the item just created.
C27_CapturedId ==
    /\ last.op = "Create" /\ Out.success =>
         /\ Out.response.requestId = Out.item.ItemId
         /\ Out.response.itemId = Out.item.ItemId
         /\ Out.item.ItemId \in DOMAIN table
         /\ table[Out.item.ItemId] = Out.item
    /\ Len(log) > 0 /\ log[Len(log)].state = "CreateItem" /\ log[Len(log)].ok =>
         /\ lastCreatedId = log[Len(log)].requestId
         /\ last.op = "none" =>
              /\ lastCreatedId \in DOMAIN table
              /\ table[lastCreatedId] = created[lastCreatedId]
         /\ last.op = "Update" =>
              /\ last.params.itemId = lastCreatedId
              /\ lastCreatedId \in DOMAIN last.before
              /\ last.before[lastCreatedId] = created[lastCreatedId]
    /\ last.op = "Delete" =>
         /\ last.params.itemId = lastCreatedId
         /\ lastCreatedId \in DOMAIN last.before
         /\ last.before[lastCreatedId] = created[lastCreatedId]

\* The second CreateItem succeeded and the Update is called for the item it
\* stored, which is not the item of the first iteration.
C27_Witness ==
    /\ last.op = "Update"
    /\ CurrentIteration = 2
    /\ CreatedIn(1) # {}
    /\ last.params.itemId \in CreatedIn(2)
    /\ last.params.itemId \notin CreatedIn(1)
    /\ last.params.itemId \in DOMAIN last.before

\* C28: a Read with an id, when the items fetched first (the whole table,
\* or those of the given correlationId) are not none but none of them has
\* that id, succeeds with count 0 and no items: "No items found" is for an
\* empty fetch, never for an empty result of the filter.
C28_EmptyFilter ==
    last.op = "Read" /\ ~Injected /\ Served =>
        /\ Fetched = {} =>
              ~Out.success /\ Out.statusCode = 400 /\ Out.message = "No items found"
        /\ Fetched # {} =>
              /\ Out.success /\ Out.statusCode = 200
              /\ Supplied(last.params.itemId) /\ last.params.itemId \notin Fetched =>
                    Out.response.count = 0 /\ Out.response.items = {}

\* A Read of the whole table for an id that is not in it, the table
\* holding another item.
C28_Witness ==
    /\ last.op = "Read" /\ ~Injected /\ Served
    /\ ~Supplied(last.params.correlationId)
    /\ Supplied(last.params.itemId)
    /\ Fetched # {} /\ last.params.itemId \notin Fetched
    /\ Out.success /\ Out.response.count = 0

\* The same for a Read scoped to a correlationId that has items.
C28_Scoped ==
    /\ last.op = "Read" /\ ~Injected /\ Served
    /\ Supplied(last.params.correlationId)
    /\ Supplied(last.params.itemId)
    /\ Fetched # {} /\ last.params.itemId \notin Fetched
    /\ Out.success /\ Out.response.count = 0

\* The item the Update is for, as it was stored before the call.
StoredBefore == last.before[last.params.itemId]

\* C29: a successful Update replaces the whole item: it keeps the id and
\* rewrites the colour, the update time, the expiry time and the
\* correlationId, which becomes the one of the call or, when the call has
\* none, the request id of the call; an item updated without correlationId
\* is not among the items of the correlationId it had before.
C29_Replaces ==
    last.op = "Update" /\ Out.success =>
        LET id == last.params.itemId
        IN  /\ id \in DOMAIN last.before
            /\ DOMAIN table = DOMAIN last.before
            /\ \A k \in DOMAIN table \ {id} : table[k] = last.before[k]
            /\ table[id] = Out.item
            /\ table[id].ItemId = id
            /\ table[id].Colour = Out.response.colour
            /\ table[id].Colour = Colour(IsRed(last.params, last.rnd),
                                         IsBlue(last.params, last.rnd))
            /\ table[id].CorrelationId = ExpectedToken
            /\ table[id].UpdateTime \in StoredBefore.UpdateTime..now
            /\ table[id].ExpiryTime = table[id].UpdateTime + logExpiry
            /\ ~Supplied(last.params.correlationId) =>
                  /\ table[id].CorrelationId = last.requestId
                  /\ table[id] \notin QueryItems(table, StoredBefore.CorrelationId)

\* An item created with a correlationId and RED is updated later, without
\* a correlationId and BLUE: colour, times and correlationId are rewritten,
\* and the items of the first correlationId are none.
C29_Witness ==
    /\ last.op = "Update" /\ Out.success
    /\ ~Supplied(last.params.correlationId)
    /\ StoredBefore.CorrelationId \in CallerCorrelationIds
    /\ StoredBefore.Colour = "RED"
    /\ table[last.params.itemId].Colour = "BLUE"
    /\ table[last.params.itemId].UpdateTime > StoredBefore.UpdateTime
    /\ table[last.params.itemId].ExpiryTime > StoredBefore.ExpiryTime
    /\ table[last.params.itemId].CorrelationId = last.requestId
    /\ QueryItems(table, StoredBefore.CorrelationId) = {}

\* The iterations in which both the Create and the Update succeeded.
Kept ==
    {n \in 1..total : CreatedIn(n) # {} /\ \E i \in UpdatesIn(n) : log[i].ok}

\* The Deletes that failed.
FailedDeletes == {i \in Steps("DeleteItem") : ~log[i].ok}

\* C30: an execution ends in Success only if the table holds an item of its
\* correlationId when the final Read is made.  When every iteration ended
\* with the Create failing, or with the Update failing and the Delete
\* succeeding, the final Read fails (with the client error "No items found"
\* when the table service serves it) and the execution ends in Failed.  When
\* the final Read succeeds, no Delete having failed, its count is the number
\* of iterations in which the Create and the Update succeeded.
C30_FinalRead ==
    /\ last.op = "Read" /\ Out.success =>
         /\ WithCorrelationId(last.before, run.name) # {}
         /\ FailedDeletes = {} => Out.response.count = Cardinality(Kept)
    /\ last.op = "Read" /\ Kept = {} /\ FailedDeletes = {} =>
         /\ ~Out.success
         /\ Served => Out.statusCode = 400 /\ Out.message = "No items found"
    /\ run.state = "Success" =>
         /\ WithCorrelationId(table, run.name) # {}
         /\ FailedDeletes = {} => run.data.result.count = Cardinality(Kept)
    /\ Terminal /\ Kept = {} /\ FailedDeletes = {} => run.state = "Failed"

\* An execution ends in Success with count 1: one iteration kept its item,
\* another deleted it after the Update failed.
C30_Witness ==
    /\ run.state = "Success"
    /\ FailedDeletes = {}
    /\ Steps("DeleteItem") # {}
    /\ Cardinality(Kept) = 1
    /\ run.data.result.count = 1

\* The final Read finds no items: one iteration's Create failed, the
\* other's Update failed and its Delete succeeded.
C30_NoItems ==
    /\ last.op = "Read" /\ Served
    /\ Kept = {} /\ FailedDeletes = {}
    /\ Steps("DeleteItem") # {}
    /\ \E i \in Steps("CreateItem") : ~log[i].ok
    /\ Out.statusCode = 400 /\ Out.message = "No items found"

\* Two invocations ran at the same time: each started before the other
\* returned.
Overlap(u, d) ==
    /\ invocations[u].issued < invocations[d].ended
    /\ invocations[d].issued < invocations[u].ended

\* C22: in every interleaving of Creates, Updates and Deletes running at
\* the same time, the condition of the put is decided with the write: a
\* Create leaves every item already stored as it is, an Update writes only
\* if its item is stored at the instant of the write, and once an Update
\* and a Delete of a stored item, running at the same time, have both
\* returned (the Delete with success), the item is not in the table: an
\* item deleted is never stored again.
C22_Conditional ==
    /\ \A k \in Done :
         LET c == invocations[k].call
         IN  /\ c.op = "Create" =>
                  /\ \A j \in DOMAIN c.before :
                       j \in DOMAIN c.out.table /\ c.out.table[j] = c.before[j]
                  /\ c.out.success => c.out.item.ItemId \notin DOMAIN c.before
             /\ c.op = "Update" /\ c.out.success => c.params.itemId \in DOMAIN c.before
             /\ c.op = "Update" /\ ~c.out.success => c.out.table = c.before
    /\ \A u, d \in Done :
         /\ invocations[u].op = "Update" /\ invocations[d].op = "Delete"
         /\ invocations[u].params.itemId = invocations[d].params.itemId
         /\ invocations[u].stored /\ invocations[d].stored
         /\ Overlap(u, d)
         /\ invocations[d].call.out.success
         => invocations[u].params.itemId \notin DOMAIN table
    /\ \A id \in deleted : id \notin DOMAIN table

\* An Update and a Delete of a stored item run at the same time; the
\* Delete is first at the table, and the Update is refused: the item does
\* not exist.
C22_Witness ==
    \E u, d \in Done :
        /\ invocations[u].op = "Update" /\ invocations[d].op = "Delete"
        /\ invocations[u].params.itemId = invocations[d].params.itemId
        /\ invocations[u].stored /\ invocations[d].stored
        /\ Overlap(u, d)
        /\ invocations[d].ended < invocations[u].ended
        /\ invocations[d].call.out.success
        /\ invocations[u].call.out.statusCode = 400
        /\ invocations[u].call.out.message = invocations[u].params.itemId \o " does not exist"
        /\ invocations[u].params.itemId \notin DOMAIN table

\* The same two, the Update first at the table: it succeeds, and the
\* Delete removes the item.
C22_UpdateFirst ==
    \E u, d \in Done :
        /\ invocations[u].op = "Update" /\ invocations[d].op = "Delete"
        /\ invocations[u].params.itemId = invocations[d].params.itemId
        /\ Overlap(u, d)
        /\ invocations[u].ended < invocations[d].ended
        /\ invocations[u].call.out.success
        /\ invocations[d].call.out.success
        /\ invocations[u].params.itemId \notin DOMAIN table

====
